---- MODULE Spec2Model ----
(***************************************************************************)
(* A model of the ESG Kanban dashboard (src/app.js).                       *)
(*                                                                         *)
(* JavaScript strings are modelled as tuples of one-character atoms, so    *)
(* that toLowerCase, trim, includes, substring, replace and join are       *)
(* computed character by character.  CJK characters are written as ASCII   *)
(* atoms (the character U+5F85 is the atom "dai", and so on).  A missing   *)
(* object property is the value Undefined; a missing number is NoNumber.   *)
(* Rendered HTML is modelled by the structure the template produces        *)
(* (records and sequences), not by markup text.                            *)
(***************************************************************************)
EXTENDS Integers, Sequences, FiniteSets, TLC

VARIABLES
    allData,        \* let allData (line 10)
    allDataIsArray, \* FALSE when the parsed payload assigned to allData is not an array
    filteredData,   \* let filteredData (line 11)
    currentView,    \* let currentView (line 12)
    filterFace,     \* #filterFace .value
    filterStatus,   \* #filterStatus .value
    filterDept,     \* #filterDept .value
    searchInput,    \* #searchInput .value
    deptOptions,    \* the <option>s appended to #filterDept
    stats,          \* #stats .innerHTML
    kanbanBoard,    \* #kanbanBoard .innerHTML / children
    tableBody,      \* #tableBody children
    visibleView,    \* which of #kanbanView / #tableView lacks the class "hidden"
    modalOpen,      \* #modalOverlay lacks the class "hidden"
    modalBody,      \* #modalBody .innerHTML (with badge and title)
    csv,            \* the text of the last downloaded artifact
    timer,          \* the closure variable timer of debounce (line 460)
    timerTable,     \* the browser's pending timeouts: id -> milliseconds left
    pc,             \* position of the DOMContentLoaded handler
    requests,       \* the retrievals made so far, in order
    hist            \* observations of the run (history only; no code reads them)

vars == <<allData, allDataIsArray, filteredData, currentView, filterFace,
          filterStatus, filterDept, searchInput, deptOptions, stats,
          kanbanBoard, tableBody, visibleView, modalOpen, modalBody, csv,
          timer, timerTable, pc, requests, hist>>

-----------------------------------------------------------------------------
(* JavaScript values and string primitives *)

Undefined == <<"undefined">>

NoNumber == <<>>

Num(n) == <<n>>

\* Boolean(v) of a string-or-undefined value: "" and undefined are falsy.
Truthy(v) == v # Undefined /\ v # <<>>

\* v || alt
OrElse(v, alt) == IF Truthy(v) THEN v ELSE alt

Min(a, b) == IF a < b THEN a ELSE b

LowerChar(c) ==
    CASE c = "A" -> "a" [] c = "B" -> "b" [] c = "C" -> "c" [] c = "D" -> "d"
      [] c = "E" -> "e" [] c = "F" -> "f" [] c = "G" -> "g" [] c = "H" -> "h"
      [] c = "I" -> "i" [] c = "J" -> "j" [] c = "K" -> "k" [] c = "L" -> "l"
      [] c = "M" -> "m" [] c = "N" -> "n" [] c = "O" -> "o" [] c = "P" -> "p"
      [] c = "Q" -> "q" [] c = "R" -> "r" [] c = "S" -> "s" [] c = "T" -> "t"
      [] c = "U" -> "u" [] c = "V" -> "v" [] c = "W" -> "w" [] c = "X" -> "x"
      [] c = "Y" -> "y" [] c = "Z" -> "z" [] OTHER -> c

toLowerCase(s) == [i \in 1..Len(s) |-> LowerChar(s[i])]

IsSpace(c) == c \in {" ", "\n", "\t"}

RECURSIVE trimStart(_)
trimStart(s) ==
    IF s # <<>> /\ IsSpace(Head(s)) THEN trimStart(Tail(s)) ELSE s

RECURSIVE trimEnd(_)
trimEnd(s) ==
    IF s # <<>> /\ IsSpace(s[Len(s)]) THEN trimEnd(SubSeq(s, 1, Len(s) - 1)) ELSE s

trim(s) == trimEnd(trimStart(s))

\* haystack.includes(needle)
includes(h, n) ==
    \E i \in 0..(Len(h) - Len(n)) : SubSeq(h, i + 1, i + Len(n)) = n

\* s.substring(0, n)
substring(s, n) == SubSeq(s, 1, Min(n, Len(s)))

\* s.replace(/\n/g, ' ')
replaceNewlines(s) == [i \in 1..Len(s) |-> IF s[i] = "\n" THEN " " ELSE s[i]]

\* s.replace(/"/g, '""')
RECURSIVE doubleQuotes(_)
doubleQuotes(s) ==
    IF s = <<>> THEN <<>>
    ELSE (IF Head(s) = "\"" THEN <<"\"", "\"">> ELSE <<Head(s)>>) \o doubleQuotes(Tail(s))

\* parts.join(sep), for a sequence of strings
RECURSIVE join(_, _)
join(parts, sep) ==
    IF parts = <<>> THEN <<>>
    ELSE IF Len(parts) = 1 THEN parts[1]
    ELSE parts[1] \o sep \o join(Tail(parts), sep)

Digits == {"0", "1", "2", "3", "4", "5", "6", "7", "8", "9"}

\* /^[ESG]-\d+$/.test(s)
MatchesIndicatorCode(s) ==
    /\ Len(s) >= 3
    /\ s[1] \in {"E", "S", "G"}
    /\ s[2] = "-"
    /\ \A i \in 3..Len(s) : s[i] \in Digits

-----------------------------------------------------------------------------
(* Literals of the source *)

New_2026 == <<"N", "e", "w", "_", "2", "0", "2", "6">>

Modified_2026 == <<"M", "o", "d", "i", "f", "i", "e", "d", "_", "2", "0", "2", "6">>

\* the grouping sentinel written at lines 156, 163, 164, 185
Unassigned == <<"dai", "fen", "pei">>

\* '(' + two characters + ')' on the card and in the table (lines 242, 262)
NewScoreLabel == <<"(", "xin", "zeng", ")">>

OnePoint == <<"1", "fen">>

ZeroPoint == <<"0", "fen">>

Placeholder == <<"-", "-">>

NA == <<"N", "/", "A">>

ModalNewBadge == <<"NEW 2026 xin zeng zhi biao">>

ModalModBadge == <<"MOD 2026 xiu zheng zhi biao">>

ModalNewScore == <<"(", "xin", "zeng", "ti", ")">>

UndefinedText == <<"u", "n", "d", "e", "f", "i", "n", "e", "d">>

\* `${v}` in a template literal: a missing property prints as "undefined"
Interpolate(v) == IF v = Undefined THEN UndefinedText ELSE v

-----------------------------------------------------------------------------
(* Records.  Field names stand for the JSON keys of the data files:         *)
(*   id 'bian hao', status 'zhuang tai biao ji', face 'gou mian',          *)
(*   title 'ping jian zhi biao', type 'ti xing', scoreText '114_zi ping    *)
(*   de fen', dept '114_xiang guan fu ze bu men', note '114_zi ping lai    *)
(*   yuan ji shuo ming', desc 'zhi biao shuo ming', basis 'ping jian zi    *)
(*   xun yi ju', prevId 'qian jie bian hao', scoreVal '114_de fen shu      *)
(*   zhi', gapSite/gapReport/gapPrev/gapType the four '114_...' gap keys,  *)
(*   ai 'ai_suggestion'.                                                   *)

\* ai_suggestion absent (the key is missing or null)
NoAI ==
    [present |-> FALSE, error |-> Undefined, parse_error |-> FALSE,
     raw_response |-> Undefined, core |-> Undefined, coreAlt |-> Undefined,
     diff |-> Undefined, diffAlt |-> Undefined, actionsIsArray |-> FALSE,
     actionsList |-> <<>>, actionsText |-> Undefined, refs |-> Undefined,
     assign |-> Undefined]

\* an ai_suggestion object with no key set
EmptyAI == [NoAI EXCEPT !.present = TRUE]

\* a record with no key set
EmptyRecord ==
    [id |-> Undefined, status |-> Undefined, face |-> Undefined,
     title |-> Undefined, type |-> Undefined, scoreText |-> Undefined,
     dept |-> Undefined, note |-> Undefined, desc |-> Undefined,
     basis |-> Undefined, prevId |-> Undefined, scoreVal |-> NoNumber,
     gapSite |-> Undefined, gapReport |-> Undefined, gapPrev |-> Undefined,
     gapType |-> Undefined, ai |-> NoAI]

-----------------------------------------------------------------------------
(* View projections *)

isNewOf(item) == item.status = New_2026

\* const hasAI = ... (line 224): ai present, no error, no parse_error
hasAIOf(item) ==
    item.ai.present /\ ~Truthy(item.ai.error) /\ ~item.ai.parse_error

\* scoreClass / scoreDisplay of createCard (lines 226-230)
cardScore(item) ==
    LET scoreVal == item.scoreVal
        scoreText == OrElse(item.scoreText, <<>>)
    IN  IF scoreVal = Num(1) THEN [class |-> "pass", display |-> OnePoint]
        ELSE IF scoreVal = Num(0) THEN [class |-> "fail", display |-> ZeroPoint]
        ELSE IF Truthy(scoreText)
             THEN [class |-> "pass", display |-> substring(scoreText, 6)]
        ELSE [class |-> "na", display |-> Placeholder]

\* createCard(item): the card's template (lines 213-248) and its click closure
createCard(item) ==
    LET face == OrElse(item.face, <<>>)
        isNew == isNewOf(item)
        score == cardScore(item)
    IN  [id |-> OrElse(item.id, <<>>),
         faceClass |-> IF face = <<"E">> THEN "env"
                       ELSE IF face = <<"S">> THEN "soc" ELSE "gov",
         badgeClass |-> IF isNew THEN "new" ELSE "modified",
         badgeLabel |-> IF isNew THEN "NEW" ELSE "MOD",
         title |-> substring(replaceNewlines(OrElse(item.title, <<>>)), 100),
         type |-> OrElse(item.type, <<>>),
         scoreClass |-> score.class,
         scoreShown |-> IF isNew THEN NewScoreLabel ELSE score.display,
         aiBadge |-> hasAIOf(item),
         item |-> item]

\* scoreBadge of a table row (lines 259-264)
rowScoreBadge(item) ==
    LET scoreVal == item.scoreVal
    IN  IF isNewOf(item) THEN [style |-> "new", text |-> NewScoreLabel]
        ELSE IF scoreVal = Num(1) THEN [style |-> "pass", text |-> OnePoint]
        ELSE IF scoreVal = Num(0) THEN [style |-> "fail", text |-> ZeroPoint]
        ELSE [style |-> "none", text |-> Placeholder]

\* one <tr> of renderTable (lines 255-281) and its click closure
createRow(item) ==
    LET isNew == isNewOf(item)
        face == OrElse(item.face, <<>>)
    IN  [id |-> OrElse(item.id, <<>>),
         badgeClass |-> IF isNew THEN "new" ELSE "modified",
         badgeLabel |-> IF isNew THEN "NEW" ELSE "MOD",
         faceLabel |-> IF face = <<"E">> THEN <<"huan", "jing">>
                       ELSE IF face = <<"S">> THEN <<"she", "hui">>
                       ELSE IF face = <<"G">> THEN <<"zhi", "li">> ELSE face,
         title |-> replaceNewlines(OrElse(item.title, <<>>)),
         type |-> OrElse(item.type, <<>>),
         scoreBadge |-> rowScoreBadge(item),
         dept |-> OrElse(item.dept, Unassigned),
         deptMuted |-> ~Truthy(item.dept),
         item |-> item]

\* renderTable's rows for a filtered set (lines 251-282)
renderTable(fd) == [i \in 1..Len(fd) |-> createRow(fd[i])]

-----------------------------------------------------------------------------
(* Board: grouping, ordering, columns *)

\* groupKey without the fallback to the sentinel
groupKeyRaw(d) == d.dept

\* d['114_...bu men'] || Unassigned (line 156)
groupKey(d) == OrElse(d.dept, Unassigned)

\* the keys of the Map groups, in insertion order (lines 152-159)
RECURSIVE groupKeys(_)
groupKeys(fd) ==
    IF fd = <<>> THEN <<>>
    ELSE LET rest == groupKeys(SubSeq(fd, 1, Len(fd) - 1))
             k == groupKey(fd[Len(fd)])
         IN  IF \E i \in 1..Len(rest) : rest[i] = k THEN rest ELSE Append(rest, k)

\* groups.get(dept): the records pushed under one key, in push order
groupItems(fd, key) == SelectSeq(fd, LAMBDA d : groupKey(d) = key)

\* Collation weight of one character under the zh-TW locale, for the
\* characters that occur in department names here: Latin letters before
\* Han characters, Han characters by stroke count.
CollationRank(c) ==
    CASE c \in {"a", "A"} -> 1 [] c \in {"f", "F"} -> 2 [] c \in {"h", "H"} -> 3
      [] c \in {"r", "R"} -> 4 [] c = "ren" -> 10 [] c = "fa" -> 11
      [] c = "cai" -> 12 [] c = "wu" -> 13 [] c = "dai" -> 14 [] c = "zi" -> 15
      [] OTHER -> 20

\* a.localeCompare(b, 'zh-TW') (line 165): negative, zero or positive
RECURSIVE localeCompare(_, _)
localeCompare(a, b) ==
    IF a = <<>> /\ b = <<>> THEN 0
    ELSE IF a = <<>> THEN -1
    ELSE IF b = <<>> THEN 1
    ELSE IF CollationRank(Head(a)) < CollationRank(Head(b)) THEN -1
    ELSE IF CollationRank(Head(a)) > CollationRank(Head(b)) THEN 1
    ELSE localeCompare(Tail(a), Tail(b))

\* the comparator of lines 162-166
compareKeys(a, b) ==
    IF a = Unassigned THEN 1
    ELSE IF b = Unassigned THEN -1
    ELSE localeCompare(a, b)

RECURSIVE insertKey(_, _)
insertKey(k, sorted) ==
    IF sorted = <<>> THEN <<k>>
    ELSE IF compareKeys(k, Head(sorted)) < 0 THEN <<k>> \o sorted
    ELSE <<Head(sorted)>> \o insertKey(k, Tail(sorted))

\* [...groups.keys()].sort(comparator) (line 162)
RECURSIVE sortKeys(_)
sortKeys(keys) ==
    IF keys = <<>> THEN <<>>
    ELSE insertKey(keys[Len(keys)], sortKeys(SubSeq(keys, 1, Len(keys) - 1)))

\* colorMap, in the iteration order of Object.entries (lines 179-186)
colorMap ==
    << [key |-> <<"yong", "xu", "ban">>, color |-> "env-color"],
       [key |-> <<"dong", "mi">>, color |-> "gov-color"],
       [key |-> <<"cai", "wu">>, color |-> "accent-blue"],
       [key |-> <<"ren", "zi">>, color |-> "soc-color"],
       [key |-> <<"fa", "wu">>, color |-> "accent-orange"],
       [key |-> Unassigned, color |-> "text-muted"] >>

\* the first keyword of colorMap contained in the title (lines 189-192)
dotColorOf(title) ==
    LET hits == {i \in 1..Len(colorMap) : includes(title, colorMap[i].key)}
    IN  IF hits = {} THEN "accent-cyan"
        ELSE colorMap[CHOOSE i \in hits : \A j \in hits : i <= j].color

\* createColumn(title, items) (lines 175-211)
createColumn(title, items) ==
    [title |-> title,
     dotColor |-> dotColorOf(title),
     count |-> Len(items),
     cards |-> [i \in 1..Len(items) |-> createCard(items[i])]]

\* the columns renderKanban appends to the cleared board (lines 147-173)
renderKanban(fd) ==
    LET sortedKeys == sortKeys(groupKeys(fd))
    IN  [kind |-> "columns",
         cols |-> [i \in 1..Len(sortedKeys) |->
                     createColumn(sortedKeys[i], groupItems(fd, sortedKeys[i]))]]

\* the failure notice written by the catch block of loadData (lines 42-43)
FailureNotice == [kind |-> "error", cols |-> <<>>]

-----------------------------------------------------------------------------
(* Stats *)

\* renderStats over a filtered set (lines 89-112)
renderStats(fd) ==
    LET total == Len(fd)
        newCount == Len(SelectSeq(fd, LAMBDA d : d.status = New_2026))
        modCount == Len(SelectSeq(fd, LAMBDA d : d.status = Modified_2026))
        aiCount == Len(SelectSeq(fd, LAMBDA d : d.ai.present /\ ~Truthy(d.ai.error)))
    IN  [rendered |-> TRUE, total |-> total, newCount |-> newCount,
         modCount |-> modCount, aiCount |-> aiCount, aiShown |-> aiCount > 0]

-----------------------------------------------------------------------------
(* Detail overlay *)

\* aiSection whose second branch tests raw_response alone
aiSectionRawOnly(item) ==
    LET ai == item.ai
        none == [branch |-> "placeholder",
                 core |-> <<>>, diff |-> <<>>, actionsAsList |-> FALSE,
                 actionsList |-> <<>>, actionsText |-> <<>>, refs |-> <<>>,
                 assign |-> <<>>, rawText |-> <<>>, rawJson |-> NoAI]
    IN  IF ai.present /\ ~Truthy(ai.error) /\ ~ai.parse_error
        THEN [none EXCEPT !.branch = "structured",
                          !.core = OrElse(OrElse(ai.core, ai.coreAlt), NA),
                          !.diff = OrElse(OrElse(ai.diff, ai.diffAlt), NA),
                          !.actionsAsList = ai.actionsIsArray,
                          !.actionsList = IF ai.actionsIsArray THEN ai.actionsList ELSE <<>>,
                          !.actionsText = IF ai.actionsIsArray THEN <<>>
                                          ELSE OrElse(ai.actionsText, NA),
                          !.refs = OrElse(ai.refs, NA),
                          !.assign = OrElse(ai.assign, NA)]
        ELSE IF ai.present /\ Truthy(ai.raw_response)
        THEN [none EXCEPT !.branch = "raw", !.rawText = ai.raw_response]
        ELSE none

\* the AI section of openModal (lines 373-420)
aiSection(item) ==
    LET ai == item.ai
    IN  IF ai.present /\ ~Truthy(ai.error) /\ ~ai.parse_error
        THEN [branch |-> "structured",
              core |-> OrElse(OrElse(ai.core, ai.coreAlt), NA),
              diff |-> OrElse(OrElse(ai.diff, ai.diffAlt), NA),
              actionsAsList |-> ai.actionsIsArray,
              actionsList |-> IF ai.actionsIsArray THEN ai.actionsList ELSE <<>>,
              actionsText |-> IF ai.actionsIsArray THEN <<>> ELSE OrElse(ai.actionsText, NA),
              refs |-> OrElse(ai.refs, NA),
              assign |-> OrElse(ai.assign, NA),
              rawText |-> <<>>, rawJson |-> NoAI]
        ELSE IF ai.present /\ (Truthy(ai.raw_response) \/ ai.parse_error)
        THEN [branch |-> "raw",
              core |-> <<>>, diff |-> <<>>, actionsAsList |-> FALSE,
              actionsList |-> <<>>, actionsText |-> <<>>, refs |-> <<>>,
              assign |-> <<>>,
              rawText |-> IF Truthy(ai.raw_response) THEN ai.raw_response ELSE <<>>,
              \* JSON.stringify(ai, null, 2): the whole structure, serialized
              rawJson |-> IF Truthy(ai.raw_response) THEN NoAI ELSE ai]
        ELSE [branch |-> "placeholder",
              core |-> <<>>, diff |-> <<>>, actionsAsList |-> FALSE,
              actionsList |-> <<>>, actionsText |-> <<>>, refs |-> <<>>,
              assign |-> <<>>, rawText |-> <<>>, rawJson |-> NoAI]

\* the gaps array of openModal (lines 357-362), as label/value pairs
gapsOf(item) ==
    (IF Truthy(item.gapSite) THEN <<[label |-> "guan wang", value |-> item.gapSite]>> ELSE <<>>)
    \o (IF Truthy(item.gapReport) THEN <<[label |-> "nian bao", value |-> item.gapReport]>> ELSE <<>>)
    \o (IF Truthy(item.gapPrev) THEN <<[label |-> "113 nian", value |-> item.gapPrev]>> ELSE <<>>)
    \o (IF Truthy(item.gapType) THEN <<[label |-> "xiu zheng xing tai", value |-> item.gapType]>> ELSE <<>>)

\* what openModal(item) writes to the badge, the title and #modalBody (lines 285-422)
modalContent(item) ==
    LET isNew == isNewOf(item)
        scoreVal == item.scoreVal
        scoreHtml ==
            IF isNew THEN [class |-> "none", text |-> <<>>]
            ELSE IF scoreVal = Num(1) THEN [class |-> "pass", text |-> <<"de", "fen">>]
            ELSE IF scoreVal = Num(0) THEN [class |-> "fail", text |-> <<"wei", "de", "fen">>]
            ELSE [class |-> "pass", text |-> OrElse(item.scoreText, NA)]
    IN  [filled |-> TRUE,
         badgeText |-> IF isNew THEN ModalNewBadge ELSE ModalModBadge,
         badgeClass |-> IF isNew THEN "new card-badge" ELSE "modified card-badge",
         title |-> Interpolate(item.id) \o <<" ", "-", " ">>
                     \o replaceNewlines(OrElse(item.title, <<>>)),
         faceLabel |-> IF item.face = <<"E">> THEN "E"
                       ELSE IF item.face = <<"S">> THEN "S" ELSE "G",
         type |-> OrElse(item.type, NA),
         prevId |-> OrElse(item.prevId, <<"(", "xin", "zeng", ")">>),
         score |-> IF isNew THEN [class |-> "none", text |-> ModalNewScore] ELSE scoreHtml,
         dept |-> OrElse(item.dept, Unassigned),
         desc |-> OrElse(item.desc, NA),
         basis |-> OrElse(item.basis, NA),
         selfEvalShown |-> ~isNew /\ Truthy(item.note),
         selfEval |-> IF ~isNew /\ Truthy(item.note) THEN item.note ELSE <<>>,
         gaps |-> IF isNew THEN <<>> ELSE gapsOf(item),
         ai |-> aiSection(item),
         item |-> item]

\* #modalBody before any record was opened
EmptyModal == [modalContent(EmptyRecord) EXCEPT !.filled = FALSE]

-----------------------------------------------------------------------------
(* Filter engine *)

\* filterCallback with the department compared by containment
filterCallbackPartialDept(d, face, status, dept, search) ==
    IF face # <<>> /\ d.face # face THEN FALSE
    ELSE IF status # <<>> /\ d.status # status THEN FALSE
    ELSE IF dept # <<>> /\ ~(d.dept # Undefined /\ includes(d.dept, dept)) THEN FALSE
    ELSE IF search # <<>>
    THEN LET present == SelectSeq(<<d.id, d.title, d.desc, d.note, d.dept>>, Truthy)
             haystack == toLowerCase(join(present, <<" ">>))
         IN  includes(haystack, search)
    ELSE TRUE

\* the callback of allData.filter in applyFilters (lines 70-82);
\* search is already lower-cased and trimmed (line 68)
filterCallback(d, face, status, dept, search) ==
    IF face # <<>> /\ d.face # face THEN FALSE
    ELSE IF status # <<>> /\ d.status # status THEN FALSE
    ELSE IF dept # <<>> /\ d.dept # dept THEN FALSE
    ELSE IF search # <<>>
    THEN LET present == SelectSeq(<<d.id, d.title, d.desc, d.note, d.dept>>, Truthy)
             haystack == toLowerCase(join(present, <<" ">>))
         IN  includes(haystack, search)
    ELSE TRUE

\* the value assigned to filteredData (lines 65-82) from the four control values
filterResult(all, face, status, dept, searchValue) ==
    LET search == trim(toLowerCase(searchValue))
    IN  SelectSeq(all, LAMBDA d : filterCallback(d, face, status, dept, search))

\* allData.filter(d => d.id && /^[ESG]-\d+$/.test(d.id)) (line 36)
indicatorRows(rows) ==
    SelectSeq(rows, LAMBDA d : Truthy(d.id) /\ MatchesIndicatorCode(d.id))

-----------------------------------------------------------------------------
(* Department options *)

\* UTF-16 code unit of a character, for the characters of department names
CodeUnit(c) ==
    CASE c = "A" -> 65 [] c = "F" -> 70 [] c = "H" -> 72 [] c = "R" -> 82
      [] c = "a" -> 97 [] c = "f" -> 102 [] c = "h" -> 104 [] c = "r" -> 114
      [] c = "ren" -> 20154 [] c = "wu" -> 21209 [] c = "dai" -> 24453
      [] c = "fa" -> 27861 [] c = "cai" -> 36001 [] c = "zi" -> 36039
      [] OTHER -> 32

\* a < b in the default order of Array.prototype.sort (code units)
RECURSIVE codeUnitLess(_, _)
codeUnitLess(a, b) ==
    IF b = <<>> THEN FALSE
    ELSE IF a = <<>> THEN TRUE
    ELSE IF CodeUnit(Head(a)) < CodeUnit(Head(b)) THEN TRUE
    ELSE IF CodeUnit(Head(a)) > CodeUnit(Head(b)) THEN FALSE
    ELSE codeUnitLess(Tail(a), Tail(b))

RECURSIVE sortedSeqOf(_)
sortedSeqOf(set) ==
    IF set = {} THEN <<>>
    ELSE LET least == CHOOSE x \in set : \A y \in set \ {x} : codeUnitLess(x, y)
         IN  <<least>> \o sortedSeqOf(set \ {least})

\* the options populateDeptFilter appends (lines 48-62)
populateDeptFilter(all) ==
    sortedSeqOf({all[i].dept : i \in {j \in 1..Len(all) : Truthy(all[j].dept)}})

-----------------------------------------------------------------------------
(* Export *)

\* const headers (lines 434-435): the property read and the text written
headers ==
    << [key |-> "id", text |-> <<"bian", "hao">>],
       [key |-> "status", text |-> <<"zhuang", "tai", "biao", "ji">>],
       [key |-> "face", text |-> <<"gou", "mian">>],
       [key |-> "title", text |-> <<"ping", "jian", "zhi", "biao">>],
       [key |-> "type", text |-> <<"ti", "xing">>],
       [key |-> "scoreText", text |-> <<"1", "1", "4", "_", "zi", "ping", "de", "fen">>],
       [key |-> "dept", text |-> <<"1", "1", "4", "_", "xiang", "guan", "fu", "ze", "bu", "men">>],
       [key |-> "note", text |-> <<"1", "1", "4", "_", "zi", "ping", "lai", "yuan", "ji", "shuo", "ming">>] >>

BOM == <<"FEFF">>

\* one cell (lines 442-444)
csvCell(val) ==
    LET v == OrElse(val, <<>>)
    IN  <<"\"">> \o replaceNewlines(doubleQuotes(v)) \o <<"\"">>

\* one row (lines 441-446), with its line end
csvRow(d) ==
    join([i \in 1..Len(headers) |-> csvCell(d[headers[i].key])], <<",">>) \o <<"\n">>

RECURSIVE csvRows(_)
csvRows(fd) ==
    IF fd = <<>> THEN <<>> ELSE csvRow(Head(fd)) \o csvRows(Tail(fd))

\* the text put in the Blob by exportCSV (lines 433-449)
exportText(fd) ==
    BOM \o join([i \in 1..Len(headers) |-> headers[i].text], <<",">>) \o <<"\n">>
        \o csvRows(fd)

-----------------------------------------------------------------------------
(* The page before any script ran, and the globals of lines 10-13 *)

\* the state of the page's elements as the markup declares them
InitialDocument ==
    [filterFace |-> <<>>, filterStatus |-> <<>>, filterDept |-> <<>>,
     searchInput |-> <<>>, deptOptions |-> <<>>,
     stats |-> [rendered |-> FALSE, total |-> 0, newCount |-> 0, modCount |-> 0,
                aiCount |-> 0, aiShown |-> FALSE],
     kanbanBoard |-> [kind |-> "initial", cols |-> <<>>],
     tableBody |-> <<>>, visibleView |-> "kanban",
     modalOpen |-> FALSE, modalBody |-> EmptyModal]

\* the record of an event: its kind, the view or record it asks for, and the
\* view mode and overlay state it found
Ev(name, view, item) ==
    [name |-> name, view |-> view, item |-> item, preView |-> currentView,
     preOpen |-> modalOpen, preItem |-> modalBody.item]

InitialHist ==
    [loadFailed |-> FALSE, noticeAtReady |-> FALSE, renderedInStartup |-> FALSE,
     inputSeen |-> FALSE, sinceInput |-> 0, runsSinceInput |-> 0, burst |-> 0,
     event |-> [name |-> "none", view |-> "", item |-> EmptyRecord,
                preView |-> "kanban", preOpen |-> FALSE, preItem |-> EmptyRecord]]

\* quiescence interval passed to debounce (line 119)
DebounceMs == 200

\* no timeout id: the closure variable timer before the first setTimeout
NoTimer == 0

\* the empty table of pending timeouts
NoTimers == [id \in {} |-> 0]

Init ==
    /\ allData = <<>>
    /\ allDataIsArray = TRUE
    /\ filteredData = <<>>
    /\ currentView = "kanban"
    /\ filterFace = InitialDocument.filterFace
    /\ filterStatus = InitialDocument.filterStatus
    /\ filterDept = InitialDocument.filterDept
    /\ searchInput = InitialDocument.searchInput
    /\ deptOptions = InitialDocument.deptOptions
    /\ stats = InitialDocument.stats
    /\ kanbanBoard = InitialDocument.kanbanBoard
    /\ tableBody = InitialDocument.tableBody
    /\ visibleView = InitialDocument.visibleView
    /\ modalOpen = InitialDocument.modalOpen
    /\ modalBody = InitialDocument.modalBody
    /\ csv = <<>>
    /\ timer = NoTimer
    /\ timerTable = NoTimers
    /\ pc = "boot"
    /\ requests = <<>>
    /\ hist = InitialHist

-----------------------------------------------------------------------------
(* Handler bodies, as relations between the state before and after *)

\* applyFilters() reading the four control values given (lines 64-87).
\* When allData is not an array, allData.filter throws before anything is
\* assigned.
applyFilters(face, status, dept, searchValue) ==
    IF allDataIsArray
    THEN /\ filteredData' = filterResult(allData, face, status, dept, searchValue)
         /\ stats' = renderStats(filteredData')
         /\ IF currentView = "kanban"
            THEN kanbanBoard' = renderKanban(filteredData') /\ UNCHANGED tableBody
            ELSE tableBody' = renderTable(filteredData') /\ UNCHANGED kanbanBoard
    ELSE UNCHANGED <<filteredData, stats, kanbanBoard, tableBody>>

\* switchView that flips the mode instead of setting the one asked for
switchViewToggle(view) ==
    LET other == IF currentView = "kanban" THEN "table" ELSE "kanban"
    IN  /\ currentView' = other
        /\ visibleView' = other
        /\ IF other = "kanban"
           THEN kanbanBoard' = renderKanban(filteredData) /\ UNCHANGED tableBody
           ELSE tableBody' = renderTable(filteredData) /\ UNCHANGED kanbanBoard

\* switchView(view) (lines 135-144)
switchView(view) ==
    /\ currentView' = view
    /\ visibleView' = view
    /\ IF view = "kanban"
       THEN kanbanBoard' = renderKanban(filteredData) /\ UNCHANGED tableBody
       ELSE tableBody' = renderTable(filteredData) /\ UNCHANGED kanbanBoard

\* openModal(item) (lines 285-425)
openModal(item) ==
    /\ modalBody' = modalContent(item)
    /\ modalOpen' = TRUE

\* closeModal() (lines 427-430)
closeModal ==
    /\ modalOpen' = FALSE
    /\ UNCHANGED modalBody

\* exportCSV over the full record set
exportCSVAll ==
    csv' = exportText(allData)

\* exportCSV() (lines 433-456)
exportCSV ==
    csv' = exportText(filteredData)

\* clearTimeout(id) on the table of pending timeouts
clearTimeout(table, id) == [i \in DOMAIN table \ {id} |-> table[i]]

\* the id setTimeout returns: the smallest one not pending
freshTimerId(table) == CHOOSE i \in 1..(Cardinality(DOMAIN table) + 1) : i \notin DOMAIN table

\* debounce without clearTimeout(timer)
debouncedNoClear(table, ms) ==
    LET id == freshTimerId(table)
    IN  [table |-> [i \in DOMAIN table \cup {id} |-> IF i = id THEN ms ELSE table[i]],
         timer |-> id]

\* the function debounce returns (lines 461-464): the pending timeouts and
\* the closure variable after clearTimeout(timer); timer = setTimeout(..., ms)
debounced(table, ms) ==
    LET cleared == clearTimeout(table, timer)
        id == freshTimerId(cleared)
    IN  [table |-> [i \in DOMAIN cleared \cup {id} |-> IF i = id THEN ms ELSE cleared[i]],
         timer |-> id]

-----------------------------------------------------------------------------
(* Inputs *)

\* most records an input data set holds
MaxRecords == 2

\* most timeouts the browser is asked to hold at once
MaxTimers == 3

E1 == <<"E", "-", "1">>

S2 == <<"S", "-", "2">>

G3 == <<"G", "-", "3">>

DeptHR == <<"H", "R">>

DeptH == <<"H">>

DeptFin == <<"cai", "wu">>

StructuredAI == [EmptyAI EXCEPT !.core = <<"c">>, !.actionsIsArray = TRUE,
                                !.actionsList = << <<"x">>, <<"y">> >>]

ParseErrorAI == [EmptyAI EXCEPT !.parse_error = TRUE, !.raw_response = <<"x", "y", "z">>]

ErrorAI == [EmptyAI EXCEPT !.error = <<"e">>]

RecA ==
    [EmptyRecord EXCEPT !.id = E1, !.status = Modified_2026, !.face = <<"E">>,
                        !.title = <<"A", "b">>, !.dept = DeptHR,
                        !.scoreVal = Num(1), !.ai = StructuredAI]

RecB ==
    [EmptyRecord EXCEPT !.id = S2, !.status = New_2026, !.face = <<"S">>,
                        !.title = <<"b", " ", "a">>, !.scoreVal = Num(0),
                        !.ai = ParseErrorAI]

\* a category header row interleaved in the data file: no indicator code
RecHeader == [EmptyRecord EXCEPT !.id = <<"E">>, !.title = <<"H", "d", "r">>]

\* the arrays the two data files may hold in a run of the whole program
Datasets == { <<>>, <<RecHeader, RecA, RecB>> }

\* what a response body may be: not JSON, JSON that is no array, an array
Bodies ==
    { [kind |-> "invalid", rows |-> <<>>], [kind |-> "object", rows |-> <<>>] }
      \cup { [kind |-> "array", rows |-> ds] : ds \in Datasets }

\* a fetch rejects, resolves with a non-success status, or resolves ok
FetchOutcomes == {"neterr", "notok", "ok"}

FaceChoices == { <<>>, <<"E">>, <<"S">> }

StatusChoices == { <<>>, New_2026, Modified_2026 }

SearchTexts == { <<>>, <<" ">>, <<" ", "E">>, <<"b", " ", "a">> }

\* time that passes between two events, in milliseconds
Gaps == {100, 200}

-----------------------------------------------------------------------------
(* Startup: the DOMContentLoaded handler (lines 16-20) and loadData (23-45) *)

\* the catch block of loadData (lines 40-44)
loadFailure ==
    /\ kanbanBoard' = FailureNotice
    /\ hist' = [hist EXCEPT !.loadFailed = TRUE]
    /\ pc' = "loadReturned"

\* resp = await fetch('suggestions_output.json'); if (!resp.ok) throw (28-29)
FetchPrimary ==
    /\ pc = "boot"
    /\ \E outcome \in FetchOutcomes, body \in Bodies :
         /\ requests' = <<[url |-> "suggestions_output.json", outcome |-> outcome,
                           body |-> body]>>
         /\ pc' = IF outcome = "ok" THEN "parse" ELSE "fetchFallback"
    /\ UNCHANGED <<allData, allDataIsArray, filteredData, currentView, filterFace,
                   filterStatus, filterDept, searchInput, deptOptions, stats,
                   kanbanBoard, tableBody, visibleView, modalOpen, modalBody, csv,
                   timer, timerTable, hist>>

\* resp = await fetch('data.json') in the inner catch (line 31): a rejection
\* reaches the outer catch, a resolved response is used whatever its status
FetchFallback ==
    /\ pc = "fetchFallback"
    /\ \E outcome \in FetchOutcomes, body \in Bodies :
         /\ requests' = Append(requests, [url |-> "data.json", outcome |-> outcome,
                                          body |-> body])
         /\ IF outcome = "neterr"
            THEN loadFailure
            ELSE pc' = "parse" /\ UNCHANGED <<kanbanBoard, hist>>
    /\ UNCHANGED <<allData, allDataIsArray, filteredData, currentView, filterFace,
                   filterStatus, filterDept, searchInput, deptOptions, stats,
                   tableBody, visibleView, modalOpen, modalBody, csv,
                   timer, timerTable>>

\* allData = await resp.json() and the rest of the try block (lines 33-39)
ParseJson ==
    /\ pc = "parse"
    /\ LET body == requests[Len(requests)].body
       IN  CASE body.kind = "invalid" ->
                  \* resp.json() rejects: allData is not assigned
                  /\ loadFailure
                  /\ UNCHANGED <<allData, allDataIsArray, deptOptions, stats>>
             [] body.kind = "object" ->
                  \* allData holds the object; allData.filter is not a function
                  /\ allDataIsArray' = FALSE
                  /\ loadFailure
                  /\ UNCHANGED <<allData, deptOptions, stats>>
             [] body.kind = "array" ->
                  /\ allData' = indicatorRows(body.rows)
                  /\ deptOptions' = deptOptions \o populateDeptFilter(allData')
                  /\ stats' = renderStats(filteredData)
                  /\ pc' = "loadReturned"
                  /\ UNCHANGED <<allDataIsArray, kanbanBoard, hist>>
    /\ UNCHANGED <<filteredData, currentView, filterFace, filterStatus, filterDept,
                   searchInput, tableBody, visibleView, modalOpen, modalBody, csv,
                   timer, timerTable, requests>>

\* setupEventListeners(); applyFilters(); after await loadData() (lines 18-19)
Continue ==
    /\ pc = "loadReturned"
    /\ pc' = "ready"
    /\ applyFilters(filterFace, filterStatus, filterDept, searchInput)
    /\ hist' = [hist EXCEPT !.renderedInStartup = allDataIsArray,
                            !.noticeAtReady = (kanbanBoard' = FailureNotice)]
    /\ UNCHANGED <<allData, allDataIsArray, currentView, filterFace, filterStatus,
                   filterDept, searchInput, deptOptions, visibleView, modalOpen,
                   modalBody, csv, timer, timerTable, requests>>

-----------------------------------------------------------------------------
(* Event handlers registered by setupEventListeners (lines 115-133) *)

\* 'change' on #filterFace (line 116)
ChangeFace ==
    /\ pc = "ready"
    /\ \E v \in FaceChoices \ {filterFace} :
         /\ filterFace' = v
         /\ applyFilters(v, filterStatus, filterDept, searchInput)
    /\ hist' = [hist EXCEPT !.event = Ev("filter", "", EmptyRecord)]
    /\ UNCHANGED <<allData, allDataIsArray, currentView, filterStatus, filterDept,
                   searchInput, deptOptions, visibleView, modalOpen, modalBody, csv,
                   timer, timerTable, pc, requests>>

\* 'change' on #filterStatus (line 117)
ChangeStatus ==
    /\ pc = "ready"
    /\ \E v \in StatusChoices \ {filterStatus} :
         /\ filterStatus' = v
         /\ applyFilters(filterFace, v, filterDept, searchInput)
    /\ hist' = [hist EXCEPT !.event = Ev("filter", "", EmptyRecord)]
    /\ UNCHANGED <<allData, allDataIsArray, currentView, filterFace, filterDept,
                   searchInput, deptOptions, visibleView, modalOpen, modalBody, csv,
                   timer, timerTable, pc, requests>>

\* 'change' on #filterDept (line 118): the empty option or a populated one
ChangeDept ==
    /\ pc = "ready"
    /\ \E v \in ({<<>>} \cup {deptOptions[i] : i \in DOMAIN deptOptions}) \ {filterDept} :
         /\ filterDept' = v
         /\ applyFilters(filterFace, filterStatus, v, searchInput)
    /\ hist' = [hist EXCEPT !.event = Ev("filter", "", EmptyRecord)]
    /\ UNCHANGED <<allData, allDataIsArray, currentView, filterFace, filterStatus,
                   searchInput, deptOptions, visibleView, modalOpen, modalBody, csv,
                   timer, timerTable, pc, requests>>

\* 'input' on #searchInput (line 119): the debounced wrapper runs
SearchInputEvent ==
    /\ pc = "ready"
    /\ Cardinality(DOMAIN timerTable) < MaxTimers
    /\ \E v \in SearchTexts \ {searchInput} : searchInput' = v
    /\ LET d == debounced(timerTable, DebounceMs)
       IN  timerTable' = d.table /\ timer' = d.timer
    /\ hist' = [hist EXCEPT !.inputSeen = TRUE, !.sinceInput = 0, !.runsSinceInput = 0,
                            !.burst = IF hist.runsSinceInput = 0
                                      THEN Min(2, hist.burst + 1) ELSE 1,
                            !.event = Ev("input", "", EmptyRecord)]
    /\ UNCHANGED <<allData, allDataIsArray, filteredData, currentView, filterFace,
                   filterStatus, filterDept, deptOptions, stats, kanbanBoard,
                   tableBody, visibleView, modalOpen, modalBody, csv, pc, requests>>

\* time passes: every pending timeout comes closer to being due
Elapse ==
    /\ pc = "ready"
    /\ hist.inputSeen
    /\ \E dt \in Gaps :
         /\ timerTable' = [i \in DOMAIN timerTable |->
                             IF timerTable[i] > dt THEN timerTable[i] - dt ELSE 0]
         /\ hist' = [hist EXCEPT !.sinceInput = Min(DebounceMs, hist.sinceInput + dt)]
         /\ <<timerTable', hist'>> # <<timerTable, hist>>
    /\ UNCHANGED <<allData, allDataIsArray, filteredData, currentView, filterFace,
                   filterStatus, filterDept, searchInput, deptOptions, stats,
                   kanbanBoard, tableBody, visibleView, modalOpen, modalBody, csv,
                   timer, pc, requests>>

\* a due timeout runs its callback () => fn(...args): applyFilters (line 463)
TimerFire ==
    /\ pc = "ready"
    /\ \E id \in DOMAIN timerTable :
         /\ timerTable[id] = 0
         /\ timerTable' = clearTimeout(timerTable, id)
    /\ applyFilters(filterFace, filterStatus, filterDept, searchInput)
    /\ hist' = [hist EXCEPT !.runsSinceInput = hist.runsSinceInput + 1,
                            !.event = Ev("timer", "", EmptyRecord)]
    /\ UNCHANGED <<allData, allDataIsArray, currentView, filterFace, filterStatus,
                   filterDept, searchInput, deptOptions, visibleView, modalOpen,
                   modalBody, csv, timer, pc, requests>>

\* 'click' on #btnKanban (line 121)
ClickKanban ==
    /\ pc = "ready"
    /\ switchView("kanban")
    /\ hist' = [hist EXCEPT !.event = Ev("switch", "kanban", EmptyRecord)]
    /\ UNCHANGED <<allData, allDataIsArray, filteredData, filterFace, filterStatus,
                   filterDept, searchInput, deptOptions, stats, modalOpen, modalBody,
                   csv, timer, timerTable, pc, requests>>

\* 'click' on #btnTable (line 122)
ClickTable ==
    /\ pc = "ready"
    /\ switchView("table")
    /\ hist' = [hist EXCEPT !.event = Ev("switch", "table", EmptyRecord)]
    /\ UNCHANGED <<allData, allDataIsArray, filteredData, filterFace, filterStatus,
                   filterDept, searchInput, deptOptions, stats, modalOpen, modalBody,
                   csv, timer, timerTable, pc, requests>>

\* 'click' on a card of the board (line 216)
ClickCard ==
    /\ visibleView = "kanban"
    /\ \E c \in DOMAIN kanbanBoard.cols :
         \E k \in DOMAIN kanbanBoard.cols[c].cards :
            /\ openModal(kanbanBoard.cols[c].cards[k].item)
            /\ hist' = [hist EXCEPT !.event =
                          Ev("select", "", kanbanBoard.cols[c].cards[k].item)]
    /\ UNCHANGED <<allData, allDataIsArray, filteredData, currentView, filterFace,
                   filterStatus, filterDept, searchInput, deptOptions, stats,
                   kanbanBoard, tableBody, visibleView, csv, timer, timerTable, pc,
                   requests>>

\* 'click' on a row of the table (line 257)
ClickRow ==
    /\ visibleView = "table"
    /\ \E r \in DOMAIN tableBody :
         /\ openModal(tableBody[r].item)
         /\ hist' = [hist EXCEPT !.event = Ev("select", "", tableBody[r].item)]
    /\ UNCHANGED <<allData, allDataIsArray, filteredData, currentView, filterFace,
                   filterStatus, filterDept, searchInput, deptOptions, stats,
                   kanbanBoard, tableBody, visibleView, csv, timer, timerTable, pc,
                   requests>>

\* 'click' on #btnClose (line 124)
ClickClose ==
    /\ pc = "ready"
    /\ closeModal
    /\ hist' = [hist EXCEPT !.event = Ev("close", "", EmptyRecord)]
    /\ UNCHANGED <<allData, allDataIsArray, filteredData, currentView, filterFace,
                   filterStatus, filterDept, searchInput, deptOptions, stats,
                   kanbanBoard, tableBody, visibleView, csv, timer, timerTable, pc,
                   requests>>

\* the listener on #modalOverlay (lines 125-127) for a click whose target is
\* the overlay itself or the dialog inside it
overlayClick(target) ==
    IF target = "overlay" THEN closeModal ELSE UNCHANGED <<modalOpen, modalBody>>

\* the keydown listener (lines 128-130)
keyDown(key) ==
    IF key = "Escape" THEN closeModal ELSE UNCHANGED <<modalOpen, modalBody>>

\* 'click' reaching #modalOverlay, which is on screen while the modal is open
ClickOverlay ==
    /\ pc = "ready"
    /\ modalOpen
    /\ \E target \in {"overlay", "dialog"} :
         /\ overlayClick(target)
         /\ hist' = [hist EXCEPT !.event =
                       Ev(IF target = "overlay" THEN "close" ELSE "other", "", EmptyRecord)]
    /\ UNCHANGED <<allData, allDataIsArray, filteredData, currentView, filterFace,
                   filterStatus, filterDept, searchInput, deptOptions, stats,
                   kanbanBoard, tableBody, visibleView, csv, timer, timerTable, pc,
                   requests>>

\* 'keydown' on the document
KeyDown ==
    /\ pc = "ready"
    /\ \E key \in {"Escape", "Enter"} :
         /\ keyDown(key)
         /\ hist' = [hist EXCEPT !.event =
                       Ev(IF key = "Escape" THEN "close" ELSE "other", "", EmptyRecord)]
    /\ UNCHANGED <<allData, allDataIsArray, filteredData, currentView, filterFace,
                   filterStatus, filterDept, searchInput, deptOptions, stats,
                   kanbanBoard, tableBody, visibleView, csv, timer, timerTable, pc,
                   requests>>

\* 'click' on #btnExport (line 132)
ClickExport ==
    /\ pc = "ready"
    /\ exportCSV
    /\ hist' = [hist EXCEPT !.event = Ev("export", "", EmptyRecord)]
    /\ UNCHANGED <<allData, allDataIsArray, filteredData, currentView, filterFace,
                   filterStatus, filterDept, searchInput, deptOptions, stats,
                   kanbanBoard, tableBody, visibleView, modalOpen, modalBody, timer,
                   timerTable, pc, requests>>

-----------------------------------------------------------------------------------------------------------------------------------------------------
(* Startup and the view controller: every handler that reads or writes the  *)
(* view mode or the overlay, with the select that re-runs the pipeline.     *)

Next ==
    \/ FetchPrimary
    \/ FetchFallback
    \/ ParseJson
    \/ Continue
    \/ ChangeFace
    \/ ChangeStatus
    \/ ChangeDept
    \/ ClickKanban
    \/ ClickTable
    \/ ClickCard
    \/ ClickRow
    \/ ClickClose
    \/ ClickOverlay
    \/ KeyDown

Spec == Init /\ [][Next]_vars

-----------------------------------------------------------------------------
(* The page once startup has succeeded on the primary resource holding     *)
(* `rows`: the state Init reaches by FetchPrimary, ParseJson, Continue.    *)

Ready(rows) ==
    LET all == indicatorRows(rows)
    IN  /\ allData = all
        /\ allDataIsArray = TRUE
        /\ filteredData = filterResult(all, <<>>, <<>>, <<>>, <<>>)
        /\ currentView = "kanban"
        /\ filterFace = InitialDocument.filterFace
        /\ filterStatus = InitialDocument.filterStatus
        /\ filterDept = InitialDocument.filterDept
        /\ searchInput = InitialDocument.searchInput
        /\ deptOptions = populateDeptFilter(all)
        /\ stats = renderStats(filteredData)
        /\ kanbanBoard = renderKanban(filteredData)
        /\ tableBody = InitialDocument.tableBody
        /\ visibleView = InitialDocument.visibleView
        /\ modalOpen = InitialDocument.modalOpen
        /\ modalBody = InitialDocument.modalBody
        /\ csv = <<>>
        /\ timer = NoTimer
        /\ timerTable = NoTimers
        /\ pc = "ready"
        /\ requests = <<[url |-> "suggestions_output.json", outcome |-> "ok",
                         body |-> [kind |-> "array", rows |-> rows]]>>
        /\ hist = [InitialHist EXCEPT !.renderedInStartup = TRUE]

\* all sequences of at most n elements of a set
RECURSIVE SeqsUpTo(_, _)
SeqsUpTo(S, n) ==
    IF n = 0 THEN { <<>> }
    ELSE LET shorter == SeqsUpTo(S, n - 1)
         IN  shorter \cup { Append(q, x) : q \in shorter, x \in S }

-----------------------------------------------------------------------------
(* Debounced search over a loaded page *)

InitDebounce == Ready(<<RecHeader, RecA, RecB>>)

NextDebounce ==
    \/ SearchInputEvent
    \/ Elapse
    \/ TimerFire
    \/ ChangeFace
    \/ ClickTable
    \/ ClickKanban

SpecDebounce == InitDebounce /\ [][NextDebounce]_vars

-----------------------------------------------------------------------------
(* The filter pipeline over every small data set *)

RecC ==
    [EmptyRecord EXCEPT !.id = <<"E", "-", "3">>, !.face = <<"E">>, !.dept = DeptH,
                        !.desc = <<"a">>]

RecD ==
    [EmptyRecord EXCEPT !.id = G3, !.status = Modified_2026, !.face = <<"G">>,
                        !.dept = DeptFin, !.note = <<"B", " ", "A">>, !.ai = ErrorAI]

\* a record with nothing but its code
RecE == [EmptyRecord EXCEPT !.id = <<"S", "-", "4">>]

FilterPool == {RecA, RecB, RecC, RecD, RecE}

\* the user leaves the four controls at any values; the change (or the
\* debounced input) event that comes last runs applyFilters on them
SetCriteria ==
    /\ pc = "ready"
    /\ \E f \in FaceChoices, st \in StatusChoices, q \in SearchTexts :
         \E dp \in {<<>>} \cup {deptOptions[i] : i \in DOMAIN deptOptions} :
            /\ filterFace' = f
            /\ filterStatus' = st
            /\ filterDept' = dp
            /\ searchInput' = q
            /\ applyFilters(f, st, dp, q)
    /\ hist' = [hist EXCEPT !.event = Ev("filter", "", EmptyRecord)]
    /\ UNCHANGED <<allData, allDataIsArray, currentView, deptOptions, visibleView,
                   modalOpen, modalBody, csv, timer, timerTable, pc, requests>>

InitFilter == \E rows \in SeqsUpTo(FilterPool, MaxRecords) : Ready(rows)

NextFilter == SetCriteria

SpecFilter == InitFilter /\ [][NextFilter]_vars

-----------------------------------------------------------------------------
(* Export over every small data set *)

\* a title with an embedded quote and newline, department absent
RecQ ==
    [EmptyRecord EXCEPT !.id = E1, !.status = Modified_2026, !.face = <<"E">>,
                        !.title = <<"q", "\"", "\n", "z">>, !.scoreText = <<"o", "k">>]

RecR ==
    [EmptyRecord EXCEPT !.id = S2, !.status = New_2026, !.face = <<"S">>,
                        !.title = <<"\"", "\"">>, !.type = <<"t">>, !.dept = DeptHR,
                        !.note = <<"n", "\n", "\n", "m">>]

ExportPool == {RecQ, RecR, RecE}

InitExport == \E rows \in SeqsUpTo(ExportPool, MaxRecords) : Ready(rows)

NextExport ==
    \/ ChangeFace
    \/ ChangeStatus
    \/ ClickExport

SpecExport == InitExport /\ [][NextExport]_vars

-----------------------------------------------------------------------------
(* The projections over every shape of one record *)

LongText == <<"a", "b", "c", "d", "e", "f", "g", "h">>

\* raw_response without any marker
RawOnlyAI == [EmptyAI EXCEPT !.raw_response = <<"r">>]

\* parse_error without raw_response
ParseErrorNoRawAI == [EmptyAI EXCEPT !.parse_error = TRUE]

ErrorWithRawAI == [EmptyAI EXCEPT !.error = <<"e">>, !.raw_response = <<"r">>]

\* a structured suggestion under the alternate keys, actions as plain text
AltStructuredAI ==
    [EmptyAI EXCEPT !.coreAlt = <<"k">>, !.diffAlt = <<"d">>,
                    !.actionsText = <<"t">>, !.refs = <<"f">>, !.assign = <<"g">>]

AIShapes ==
    {NoAI, EmptyAI, StructuredAI, AltStructuredAI, ErrorAI, ErrorWithRawAI,
     ParseErrorAI, ParseErrorNoRawAI, RawOnlyAI}

ProjectRecords ==
    { [RecA EXCEPT !.status = st, !.scoreVal = sv, !.scoreText = tx, !.ai = NoAI] :
        st \in {New_2026, Modified_2026, Undefined},
        sv \in {Num(0), Num(1), Num(2), NoNumber},
        tx \in {Undefined, <<"o", "k">>, LongText} }
      \cup { [RecA EXCEPT !.status = st, !.ai = ai, !.dept = Undefined,
                          !.note = <<"n">>, !.gapSite = <<"w">>, !.gapType = <<"y">>] :
               st \in {New_2026, Modified_2026}, ai \in AIShapes }

InitProject == \E r \in ProjectRecords : Ready(<<r>>)

NextProject ==
    \/ ClickKanban
    \/ ClickTable
    \/ ClickCard
    \/ ClickRow
    \/ ClickClose

SpecProject == InitProject /\ [][NextProject]_vars

-----------------------------------------------------------------------------
(* Claims *)

\* C1: when both retrievals fail, or the payload is no record sequence, the
\* failure notice is on the board once startup has finished and the
\* filter/render pipeline has not run in that startup sequence.
C1_LoadFailureTerminal ==
    (pc = "ready" /\ hist.loadFailed) =>
        (hist.noticeAtReady /\ ~hist.renderedInStartup)

C2_Unusable(req) == req.outcome # "ok" \/ req.body.kind # "array"

\* C2: the fallback is retrieved exactly when the primary retrieval fails, at
\* most two retrievals are made, and the load ends with the full record set
\* or in the failure state, the latter whenever both resources are
\* unreachable or unparsable.
C2_RetrievalProtocol ==
    /\ Len(requests) <= 2
    /\ pc \in {"loadReturned", "ready"} =>
         /\ Len(requests) >= 1
         /\ requests[1].url = "suggestions_output.json"
         /\ (Len(requests) = 2) <=> (requests[1].outcome # "ok")
         /\ Len(requests) = 2 => requests[2].url = "data.json"
         /\ \/ hist.loadFailed /\ (pc = "loadReturned" => kanbanBoard = FailureNotice)
            \/ /\ ~hist.loadFailed
               /\ requests[Len(requests)].body.kind = "array"
               /\ allData = indicatorRows(requests[Len(requests)].body.rows)
         /\ (Len(requests) = 2 /\ C2_Unusable(requests[1]) /\ C2_Unusable(requests[2]))
               => hist.loadFailed

C3_Haystack(d) ==
    toLowerCase(join(SelectSeq(<<d.id, d.title, d.desc, d.note, d.dept>>, Truthy), <<" ">>))

C3_Satisfies(d, needle) ==
    /\ filterFace = <<>> \/ d.face = filterFace
    /\ filterStatus = <<>> \/ d.status = filterStatus
    /\ filterDept = <<>> \/ d.dept = filterDept
    /\ needle = <<>> \/
         \E i \in 1..Len(C3_Haystack(d)) : \E j \in i..Len(C3_Haystack(d)) :
            SubSeq(C3_Haystack(d), i, j) = needle

\* whether fd is all[i1], all[i2], ... for the increasing run of all the
\* indices whose record satisfies the criteria
RECURSIVE C3_IsSelection(_, _, _)
C3_IsSelection(fd, all, needle) ==
    IF all = <<>> THEN fd = <<>>
    ELSE IF C3_Satisfies(Head(all), needle)
    THEN fd # <<>> /\ Head(fd) = Head(all) /\ C3_IsSelection(Tail(fd), Tail(all), needle)
    ELSE C3_IsSelection(fd, Tail(all), needle)

\* C3 as stated: the filtered set is the order-preserving subsequence of the
\* records meeting every non-empty criterion, the search criterion being that
\* the lower-cased search text is a substring of the lower-cased joined fields.
C3_FilterAsStated ==
    pc = "ready" => C3_IsSelection(filteredData, allData, toLowerCase(searchInput))

\* C3 amended: the same, the search criterion being that the lower-cased
\* search text with its leading and trailing whitespace removed, when not
\* empty, is a substring of the lower-cased joined fields.
C3_FilterTrimmed ==
    pc = "ready" => C3_IsSelection(filteredData, allData, trim(toLowerCase(searchInput)))

C3_Witness ==
    /\ searchInput = <<" ", "E">>
    /\ filterDept = DeptH
    /\ Len(allData) = 2
    /\ Len(filteredData) = 1

C4_ColumnItems(col) == [k \in DOMAIN col.cards |-> col.cards[k].item]

C4_InGroup(d, title) ==
    IF Truthy(d.dept) THEN d.dept = title ELSE title = Unassigned

RECURSIVE C4_SumCounts(_)
C4_SumCounts(cols) ==
    IF cols = <<>> THEN 0 ELSE Head(cols).count + C4_SumCounts(Tail(cols))

\* C4: the board's groups partition the filtered set: counts sum to its
\* length, every record is in exactly one group, every key is a real
\* department or the sentinel, and members keep the filtered set's order.
C4_GroupsPartition ==
    kanbanBoard.kind = "columns" =>
        LET cols == kanbanBoard.cols
        IN  /\ C4_SumCounts(cols) = Len(filteredData)
            /\ \A c \in DOMAIN cols :
                 /\ cols[c].count = Len(cols[c].cards)
                 /\ cols[c].count > 0
                 /\ cols[c].title # Undefined
                 /\ cols[c].title # <<>>
                 /\ C4_ColumnItems(cols[c])
                      = SelectSeq(filteredData, LAMBDA d : C4_InGroup(d, cols[c].title))
            /\ \A i \in DOMAIN filteredData :
                 Cardinality({c \in DOMAIN cols : C4_InGroup(filteredData[i], cols[c].title)}) = 1

C4_Witness ==
    /\ kanbanBoard.kind = "columns"
    /\ Len(kanbanBoard.cols) = 2
    /\ kanbanBoard.cols[1].title = DeptFin
    /\ kanbanBoard.cols[2].title = Unassigned
    /\ searchInput = <<"b", " ", "a">>
    /\ Len(filteredData) = 2

C5_PolicyBadge(item) ==
    IF item.status = New_2026 THEN NewScoreLabel
    ELSE IF item.scoreVal = Num(1) THEN OnePoint
    ELSE IF item.scoreVal = Num(0) THEN ZeroPoint
    ELSE IF Truthy(item.scoreText) THEN SubSeq(item.scoreText, 1, Min(6, Len(item.scoreText)))
    ELSE Placeholder

\* C5: the card and the table row of a record both show the score badge of
\* the one priority policy: New, then 1, then 0, then the score text cut to
\* six characters, then the placeholder.
C5_SummaryBadgePolicy ==
    /\ \A c \in DOMAIN kanbanBoard.cols : \A k \in DOMAIN kanbanBoard.cols[c].cards :
         kanbanBoard.cols[c].cards[k].scoreShown
            = C5_PolicyBadge(kanbanBoard.cols[c].cards[k].item)
    /\ \A r \in DOMAIN tableBody :
         tableBody[r].scoreBadge.text = C5_PolicyBadge(tableBody[r].item)

C6_NoSubItems(sec) ==
    /\ sec.core = <<>> /\ sec.diff = <<>> /\ sec.actionsList = <<>>
    /\ sec.actionsText = <<>> /\ sec.refs = <<>> /\ sec.assign = <<>>

C6_RawDump(ai, sec) ==
    /\ sec.branch = "raw"
    /\ IF Truthy(ai.raw_response)
       THEN sec.rawText = ai.raw_response
       ELSE sec.rawText = <<>> /\ sec.rawJson = ai
    /\ C6_NoSubItems(sec)

\* C6 as stated: an aiSuggestion with a raw-response field or a parse-error
\* marker is rendered as the raw text (or the serialized structure), without
\* structured sub-items; every shape gives exactly one AI section, the
\* placeholder when aiSuggestion is absent.
C6_AIBranchAsStated ==
    modalBody.filled =>
        LET ai == modalBody.item.ai
            sec == modalBody.ai
        IN  /\ (ai.present /\ (Truthy(ai.raw_response) \/ ai.parse_error)) => C6_RawDump(ai, sec)
            /\ sec.branch \in {"structured", "raw", "placeholder"}
            /\ ~ai.present => sec.branch = "placeholder"

\* C6 amended: an aiSuggestion with a parse-error marker, or with a
\* raw-response field and an error marker, is rendered as the raw text (or
\* the serialized structure), without structured sub-items; one with neither
\* marker is rendered as the five structured sub-items even when it has a
\* raw-response field; every shape gives exactly one AI section, the
\* placeholder when aiSuggestion is absent.
C6_AIBranchByMarkers ==
    modalBody.filled =>
        LET ai == modalBody.item.ai
            sec == modalBody.ai
        IN  /\ (ai.present /\ (ai.parse_error \/ (Truthy(ai.raw_response) /\ Truthy(ai.error))))
                 => C6_RawDump(ai, sec)
            /\ (ai.present /\ ~ai.parse_error /\ ~Truthy(ai.error))
                 => (sec.branch = "structured" /\ sec.rawText = <<>>)
            /\ sec.branch \in {"structured", "raw", "placeholder"}
            /\ ~ai.present => sec.branch = "placeholder"

C6_Witness ==
    /\ modalOpen
    /\ modalBody.item.ai = ParseErrorNoRawAI
    /\ modalBody.ai.branch = "raw"
    /\ modalBody.ai.rawJson = ParseErrorNoRawAI

C9_Flag(d) == d.ai.present /\ ~Truthy(d.ai.error) /\ ~d.ai.parse_error

\* C9: the AI count of the stats summary is the number of filtered records
\* whose aiSuggestion is present with neither an error nor a parse-error
\* marker, and no other record shows the AI indicator on its card.
C9_AiCountMatchesFlag ==
    /\ pc = "ready" =>
         stats.aiCount = Cardinality({i \in DOMAIN filteredData : C9_Flag(filteredData[i])})
    /\ \A c \in DOMAIN kanbanBoard.cols : \A k \in DOMAIN kanbanBoard.cols[c].cards :
         kanbanBoard.cols[c].cards[k].aiBadge => C9_Flag(kanbanBoard.cols[c].cards[k].item)

C7_ModalSame ==
    modalOpen = hist.event.preOpen /\ modalBody.item = hist.event.preItem

\* C7: the controller starts in (kanban, closed); a filter-affecting event
\* changes neither view nor modal; a view switch sets the view asked for and
\* leaves the modal; a selection opens that record, over any open one, and
\* leaves the view; a close event closes the modal and leaves the view; no
\* state outside {kanban, table} x {closed, open(record)} is reached.
C7_ViewController ==
    /\ currentView \in {"kanban", "table"}
    /\ modalOpen \in BOOLEAN
    /\ modalOpen => (modalBody.filled /\ modalBody = modalContent(modalBody.item))
    /\ hist.event.name = "none" => (currentView = "kanban" /\ ~modalOpen)
    /\ hist.event.name \in {"filter", "input", "timer"} =>
         (currentView = hist.event.preView /\ C7_ModalSame)
    /\ hist.event.name = "switch" =>
         (currentView = hist.event.view /\ C7_ModalSame)
    /\ hist.event.name = "select" =>
         (modalOpen /\ modalBody.item = hist.event.item /\ currentView = hist.event.preView)
    /\ hist.event.name = "close" =>
         (~modalOpen /\ currentView = hist.event.preView)

C7_Witness ==
    /\ hist.event.name = "select"
    /\ hist.event.preOpen
    /\ hist.event.preItem # hist.event.item
    /\ modalBody.item = RecB
    /\ currentView = "table"

RECURSIVE C8_Escaped(_)
C8_Escaped(str) ==
    IF str = <<>> THEN <<>>
    ELSE (CASE Head(str) = "\"" -> <<"\"", "\"">>
            [] Head(str) = "\n" -> <<" ">>
            [] OTHER -> <<Head(str)>>) \o C8_Escaped(Tail(str))

C8_Columns == <<"id", "status", "face", "title", "type", "scoreText", "dept", "note">>

C8_Cell(d, col) ==
    <<"\"">> \o C8_Escaped(IF d[col] \in {Undefined, <<>>} THEN <<>> ELSE d[col]) \o <<"\"">>

C8_Row(d) ==
    C8_Cell(d, "id") \o <<",">> \o C8_Cell(d, "status") \o <<",">>
      \o C8_Cell(d, "face") \o <<",">> \o C8_Cell(d, "title") \o <<",">>
      \o C8_Cell(d, "type") \o <<",">> \o C8_Cell(d, "scoreText") \o <<",">>
      \o C8_Cell(d, "dept") \o <<",">> \o C8_Cell(d, "note") \o <<"\n">>

\* C8: the artifact is the byte-order marker, the 8-column header, then one
\* row per record of the filtered set in its order, each cell the field's
\* text (empty when absent) with quotes doubled and newlines turned into
\* spaces, wrapped in quotes, cells joined by commas.
C8_ExportIsFilteredSet ==
    hist.event.name = "export" =>
        LET rest == SubSeq(csv, 2, Len(csv))
        IN /\ csv # <<>> /\ Head(csv) = "FEFF"
           /\ [i \in DOMAIN headers |-> headers[i].key] = C8_Columns
           /\ \E cut \in 1..Len(rest) :
                /\ rest[cut] = "\n"
                /\ \A i \in 1..(cut - 1) : rest[i] # "\n"
                /\ Cardinality({i \in 1..cut : rest[i] = ","}) = 7
                /\ SubSeq(rest, cut + 1, Len(rest))
                     = join([i \in DOMAIN filteredData |-> C8_Row(filteredData[i])], <<>>)

C8_Witness ==
    /\ hist.event.name = "export"
    /\ allData = <<RecR, RecQ>>
    /\ filteredData = <<RecQ>>
    /\ csv # <<>>

\* C10: at most one trigger is pending; an input event leaves exactly one
\* trigger, due one quiescence interval after it; the debounced pipeline run
\* happens only once that interval has passed with no input, once per burst,
\* and filters on the search text present when it runs.
C10_Debounce ==
    /\ Cardinality(DOMAIN timerTable) <= 1
    /\ \A id \in DOMAIN timerTable :
         id = timer /\ timerTable[id] = DebounceMs - hist.sinceInput
    /\ ~hist.inputSeen => timerTable = NoTimers
    /\ hist.inputSeen =>
         /\ hist.runsSinceInput <= 1
         /\ (hist.runsSinceInput = 0) <=> (DOMAIN timerTable # {})
    /\ hist.event.name = "timer" =>
         /\ hist.sinceInput >= DebounceMs
         /\ hist.runsSinceInput = 1
         /\ filteredData
              = filterResult(allData, filterFace, filterStatus, filterDept, searchInput)

C10_Witness ==
    /\ hist.event.name = "timer"
    /\ hist.burst = 2
    /\ hist.runsSinceInput = 1
    /\ searchInput = <<"b", " ", "a">>
    /\ filteredData = <<RecB>>

====
